---------------------------- MODULE Spec2Model ----------------------------
(***************************************************************************)
(* Radar mapping: relative pose estimation with a persistent pose cache    *)
(* (src/data.py, RadarData) and the chunked persistent raster map          *)
(* (src/map.py, Map and merge_img).                                        *)
(*                                                                         *)
(* Numbers are exact rationals <<n, d>> with d > 0; the float NaN is       *)
(* <<0, 0>>.  Lengths are counted in a unit of which a pixel of the        *)
(* usual resolution holds Precision many; attitudes are yaw rotations by   *)
(* a multiple of a quarter turn, for which every sum and product the code  *)
(* computes in floating point is exact.                                    *)
(***************************************************************************)
EXTENDS Integers, Sequences, FiniteSets, TLC

VARIABLES
    db,         \* cv2_transformations.db: the persistent pose cache
    cacheOpen,  \* SqliteDict handles opened and not closed
    cur,        \* the latest call of image_transformation_from
    prev,       \* the call before it
    ret,        \* what the latest image_position_from gave its caller
    pin,        \* predict_image: the scan and the pose it is predicted at
    pout,       \* predict_image: the warped image, the mask and the prediction
    map,        \* the Map object: precision, gps_pos, attitude
    img_cov,    \* Map.img_cov
    map_hdf5,   \* the file's group "map": key -> tile of values
    cov_map_hdf5, \* the file's group "covariance": key -> tile of covariances
    fileOpen,   \* h5py.File handles opened and not closed
    buf,        \* what the latest build_partial_map returned to its caller
    last,       \* the latest operation on the map, the tiles before it, its effect
    nops,       \* operations on the map so far
    fin,        \* merge_img on one pixel: the two values and covariances
    fout        \* merge_img on one pixel: the results

cacheVars == <<db, cacheOpen, cur, prev, ret>>

predictVars == <<pin, pout>>

mapVars == <<map, img_cov, map_hdf5, cov_map_hdf5, fileOpen, buf, last, nops>>

fuseVars == <<fin, fout>>

vars == <<db, cacheOpen, cur, prev, ret, pin, pout, map, img_cov, map_hdf5,
          cov_map_hdf5, fileOpen, buf, last, nops, fin, fout>>

----------------------------------------------------------------------------
(* Exact arithmetic standing for numpy's float64 arithmetic *)

Abs(n) == IF n < 0 THEN -n ELSE n

RECURSIVE GCD(_, _)
GCD(a, b) == IF b = 0 THEN a ELSE GCD(b, a % b)

\* the rational n/d in lowest terms, d # 0
Q(n, d) ==
    LET s == IF d < 0 THEN -1 ELSE 1
        g == GCD(Abs(n), Abs(d))
    IN  <<(s * n) \div g, (s * d) \div g>>

I(n) == <<n, 1>>

NaN == <<0, 0>>

IsNaN(x) == x[2] = 0

RAdd(x, y) == IF IsNaN(x) \/ IsNaN(y) THEN NaN
              ELSE Q(x[1] * y[2] + y[1] * x[2], x[2] * y[2])

RNeg(x) == IF IsNaN(x) THEN NaN ELSE <<-x[1], x[2]>>

RSub(x, y) == RAdd(x, RNeg(y))

RMul(x, y) == IF IsNaN(x) \/ IsNaN(y) THEN NaN
              ELSE Q(x[1] * y[1], x[2] * y[2])

\* 0/0 is NaN in float64 as well; x/0 for x # 0 (an infinity) is not modelled
\* and no input reaches it
RDiv(x, y) == IF IsNaN(x) \/ IsNaN(y) \/ y[1] = 0 THEN NaN
              ELSE Q(x[1] * y[2], x[2] * y[1])

RLess(x, y) == x[1] * y[2] < y[1] * x[2]

RMin(x, y) == IF RLess(y, x) THEN y ELSE x

RMax(x, y) == IF RLess(x, y) THEN y ELSE x

\* np.floor, np.ceil and round-half-to-even (np.round, round of a float64),
\* each to an integer, of a number that is not NaN
RFloor(x) == x[1] \div x[2]

RCeil(x) == -((-x[1]) \div x[2])

RRound(x) ==
    LET f == x[1] \div x[2]
        r == x[1] - f * x[2]
    IN  IF 2 * r < x[2] THEN f
        ELSE IF 2 * r > x[2] THEN f + 1
        ELSE IF f % 2 = 0 THEN f ELSE f + 1

----------------------------------------------------------------------------
(* scipy Rotation, restricted to yaw by k quarter turns (k in 0..3) *)

Cos4(k) == CASE k % 4 = 0 -> 1 [] k % 4 = 2 -> -1 [] OTHER -> 0

Sin4(k) == CASE k % 4 = 1 -> 1 [] k % 4 = 3 -> -1 [] OTHER -> 0

\* Rotation.as_dcm()[:2,:2]
Dcm2(k) == <<<<Cos4(k), -Sin4(k)>>, <<Sin4(k), Cos4(k)>>>>

\* Rotation.from_dcm of a matrix whose upper left block is m, z axis fixed
FromDcm(m) == CHOOSE k \in 0..3 : Dcm2(k) = m

RotInv(k) == (4 - k) % 4

\* a * b
RotMul(a, b) == (a + b) % 4

\* Rotation.apply(v, inverse) of a vector of three numbers
Apply(k, v, inverse) ==
    LET j == IF inverse THEN RotInv(k) ELSE k
    IN  <<RSub(RMul(I(Cos4(j)), v[1]), RMul(I(Sin4(j)), v[2])),
          RAdd(RMul(I(Sin4(j)), v[1]), RMul(I(Cos4(j)), v[2])),
          v[3]>>

VAdd(u, v) == [i \in DOMAIN u |-> RAdd(u[i], v[i])]

VSub(u, v) == [i \in DOMAIN u |-> RSub(u[i], v[i])]

VScale(c, v) == [i \in DOMAIN v |-> RMul(c, v[i])]

VDiv(v, c) == [i \in DOMAIN v |-> RDiv(v[i], c)]

\* np.any(np.isnan(v)); np.nan itself stands as the vector of three NaN
AnyNaN(v) == \E i \in DOMAIN v : IsNaN(v[i])

NaNVec == <<NaN, NaN, NaN>>

\* rotation = np.nan
NaNRot == -1

\* id is None
NoneId == -1

----------------------------------------------------------------------------
(* RadarData and the pose cache (src/data.py) *)

\* RadarData(ts, img, gps_pos, attitude, precision)
RadarData(ts, img, gps_pos, attitude, precision) ==
    [id |-> ts, precision |-> precision, img |-> img,
     gps_pos |-> gps_pos, attitude |-> attitude]

V3(x, y, z) == <<I(x), I(y), I(z)>>

\* units per pixel of the usual resolution (0.04 m)
Precision == 2

\* the scans pose estimation is called with: two sensor scans and a
\* synthetic one whose id is None
PoseScans ==
    { RadarData(1, <<<<I(8), I(0)>>, <<I(0), I(8)>>>>, V3(0, 0, 0), 0, I(Precision)),
      RadarData(2, <<<<I(8), I(8)>>, <<I(0), I(8)>>>>, V3(4, 2, 1), 1, I(Precision)),
      RadarData(NoneId, <<<<I(1), I(1)>>, <<I(1), I(1)>>>>, V3(2, -2, 3), 3, I(Precision)) }

\* one scan is registered against another
PosePairs == {pair \in PoseScans \X PoseScans : pair[1] # pair[2]}

\* what ECC_estimation can do: throw (cv2.error when the iteration does not
\* converge), return a Euclidean warp matrix (rotation block Dcm2(k),
\* translation tx, ty in pixels), or return a matrix of NaN
RegOutcomes ==
    { [kind |-> "throw", k |-> 0, tx |-> NaN, ty |-> NaN],
      [kind |-> "ok", k |-> 0, tx |-> I(1), ty |-> I(0)],
      [kind |-> "ok", k |-> 1, tx |-> I(-2), ty |-> I(3)],
      [kind |-> "nan", k |-> 0, tx |-> NaN, ty |-> NaN] }

Namespaces == {"ds1", "ds2"}

EmptyDict == [key \in {} |-> [translation |-> NaNVec, rotation |-> NaNRot]]

NoSpaces == [ns \in {} |-> EmptyDict]

\* str(self.id)+"-"+str(otherdata.id): one key per ordered pair of ids
PairKey(self, otherdata) == <<self.id, otherdata.id>>

BothIds(self, otherdata) == ~(otherdata.id = NoneId \/ self.id = NoneId)

\* lines 81-83: the pose a warp matrix stands for
PoseOfWarp(self, w) ==
    LET m == Dcm2(w.k)
        rot_matrix == <<<<m[1][1], m[2][1]>>, <<m[1][2], m[2][2]>>>>
    IN  [translation |-> VScale(RNeg(self.precision), <<w.tx, w.ty, I(0)>>),
         rotation |-> IF IsNaN(w.tx) THEN NaNRot ELSE FromDcm(rot_matrix)]

\* lines 84-87
InvalidPose == [translation |-> NaNVec, rotation |-> NaNRot]

\* the try block without its handler: the exception leaves the call
RegisteredUncaught(self, reg) ==
    IF reg.kind = "throw" THEN [raised |-> TRUE, pose |-> InvalidPose]
    ELSE [raised |-> FALSE, pose |-> PoseOfWarp(self, reg)]

\* lines 70-87: the try block and its handler, which catches everything
Registered(self, reg) ==
    IF reg.kind = "throw" THEN [raised |-> FALSE, pose |-> InvalidPose]
    ELSE [raised |-> FALSE, pose |-> PoseOfWarp(self, reg)]

\* line 89 without its test of the translation
PersistableAlways(self, otherdata, pose) == BothIds(self, otherdata)

\* line 89: whether the computed pose is written to the cache
Persistable(self, otherdata, pose) ==
    BothIds(self, otherdata) /\ ~AnyNaN(pose.translation)

\* lines 90-97: d[key] = (translation, rotation) in the active namespace
Stored(d, self, otherdata, pose) ==
    LET ns == d.use[1]
        old == IF ns \in DOMAIN d.spaces THEN d.spaces[ns] ELSE EmptyDict
        new == [key \in DOMAIN old \cup {PairKey(self, otherdata)} |->
                  IF key = PairKey(self, otherdata) THEN pose ELSE old[key]]
    IN  [d EXCEPT !.spaces =
            [n \in DOMAIN d.spaces \cup {ns} |->
                IF n = ns THEN new ELSE d.spaces[n]]]

\* a lookup that never finds the key
LookupMiss(d, self, otherdata) == <<>>

\* lines 58-63: the cached pose as a sequence of zero or one pose
Lookup(d, self, otherdata) ==
    LET ns == d.use[1]
    IN  IF ns \in DOMAIN d.spaces /\ PairKey(self, otherdata) \in DOMAIN d.spaces[ns]
        THEN <<d.spaces[ns][PairKey(self, otherdata)]>>
        ELSE <<>>

\* lines 55-102, image_transformation_from: the pose returned or the
\* exception raised, whether the registration primitive was invoked, the
\* cache afterwards and the handles left open
Transformation(d, self, otherdata, reg) ==
    IF BothIds(self, otherdata) /\ d.use = <<>>
    THEN \* line 60: KeyError('use_dataset'), raised between open and close
         [raised |-> TRUE, pose |-> InvalidPose, invoked |-> FALSE,
          db |-> d, leaked |-> 1]
    ELSE LET hit == IF BothIds(self, otherdata) THEN Lookup(d, self, otherdata)
                    ELSE <<>>
         IN  IF hit # <<>>
             THEN [raised |-> FALSE, pose |-> hit[1], invoked |-> FALSE,
                   db |-> d, leaked |-> 0]
             ELSE LET got == Registered(self, reg)
                  IN  [raised |-> got.raised, pose |-> got.pose, invoked |-> TRUE,
                       db |-> IF ~got.raised /\ Persistable(self, otherdata, got.pose)
                              THEN Stored(d, self, otherdata, got.pose) ELSE d,
                       leaked |-> 0]

\* utils.rotation_proj: the rotation between the two attitudes projected in
\* the image plane
rotation_proj(attitude1, attitude2) == RotMul(attitude2, RotInv(attitude1))

\* lines 108-117 of image_position_from, given the pose
PositionOf(self, otherdata, pose) ==
    IF ~AnyNaN(pose.translation)
    THEN [gps_pos |-> VAdd(otherdata.gps_pos,
                           Apply(otherdata.attitude, pose.translation, TRUE)),
          attitude |-> RotMul(RotInv(pose.rotation), otherdata.attitude)]
    ELSE LET t == Apply(otherdata.attitude,
                        VSub(self.gps_pos, otherdata.gps_pos), FALSE)
             trans == <<t[1], t[2], I(0)>>
         IN  [gps_pos |-> VAdd(otherdata.gps_pos,
                               Apply(otherdata.attitude, trans, TRUE)),
              attitude |-> RotMul(RotInv(rotation_proj(otherdata.attitude,
                                                       self.attitude)),
                                  otherdata.attitude)]


NoScan == RadarData(NoneId, <<>>, NaNVec, NaNRot, NaN)

NoPin == [scan |-> NoScan, gps_pos |-> NaNVec, attitude |-> NaNRot]

NoPout == [done |-> FALSE, predict_img |-> <<>>, mask |-> <<>>, prediction |-> <<>>]

\* no prediction is under way
PredictIdle == pin = NoPin /\ pout = NoPout

NoTiles == [key \in {} |-> <<>>]

NoBuf == [held |-> FALSE, fresh |-> FALSE, img |-> <<>>, cov_img |-> <<>>,
          gps_pos |-> NaNVec, read |-> {}]

NoLast == [op |-> "none", raised |-> FALSE, scan |-> NoScan, pre_map |-> NoTiles,
           pre_cov |-> NoTiles, read |-> {}, written |-> {},
           P9 |-> <<NaN, NaN>>, P10 |-> <<NaN, NaN>>, unmodified |-> FALSE]

\* no map has been created
MapIdle ==
    /\ map = [precision |-> NaN, gps_pos |-> NaNVec, attitude |-> NaNRot]
    /\ img_cov = NaN
    /\ map_hdf5 = NoTiles
    /\ cov_map_hdf5 = NoTiles
    /\ fileOpen = 0
    /\ buf = NoBuf
    /\ last = NoLast
    /\ nops = 0

NoFin == [v1 |-> NaN, v2 |-> NaN, p1 |-> NaN, p2 |-> NaN]

NoFout == [done |-> FALSE, ab |-> <<NaN, NaN>>, ba |-> <<NaN, NaN>>,
           values_swapped |-> <<NaN, NaN>>]

\* no pixel is being fused
FuseIdle == fin = NoFin /\ fout = NoFout

\* leaked handles are counted up to this many
MaxOpen == 2

NoCall ==
    [called |-> FALSE, self |-> NoScan, other |-> NoScan, would |-> "any",
     invoked |-> FALSE, raised |-> FALSE, pose |-> InvalidPose]

NoRet == [op |-> "none", raised |-> FALSE, gps_pos |-> NaNVec, attitude |-> NaNRot]

CallRecord(self, otherdata, reg, r) ==
    [called |-> TRUE, self |-> self, other |-> otherdata, would |-> reg.kind,
     invoked |-> r.invoked, raised |-> r.raised, pose |-> r.pose]

\* no pose estimation has been called, on a cache file never set up
CacheIdle ==
    /\ db = [use |-> <<>>, spaces |-> NoSpaces]
    /\ cacheOpen = 0
    /\ cur = NoCall
    /\ prev = NoCall
    /\ ret = NoRet

\* the cache file as a run finds it: with or without an active namespace
CacheInit ==
    /\ db \in { [use |-> u, spaces |-> s] :
                  u \in {<<>>} \cup {<<n>> : n \in Namespaces},
                  s \in {NoSpaces, [ns \in {"ds1"} |-> EmptyDict]} }
    /\ cacheOpen = 0
    /\ cur = NoCall
    /\ prev = NoCall
    /\ ret = NoRet
    /\ PredictIdle /\ MapIdle /\ FuseIdle

\* a caller runs self.image_transformation_from(otherdata)
image_transformation_from ==
    \E pair \in PosePairs, reg \in RegOutcomes :
        \E r \in {Transformation(db, pair[1], pair[2], reg)} :
            /\ cacheOpen < MaxOpen
            /\ db' = r.db
            /\ cacheOpen' = cacheOpen + r.leaked
            /\ prev' = [cur EXCEPT !.would = "any"]
            /\ cur' = CallRecord(pair[1], pair[2], reg, r)
            /\ ret' = [NoRet EXCEPT !.op = "transformation", !.raised = r.raised]
            /\ UNCHANGED <<predictVars, mapVars, fuseVars>>

\* a caller runs self.image_position_from(otherdata)
image_position_from ==
    \E pair \in PosePairs, reg \in RegOutcomes :
        \E r \in {Transformation(db, pair[1], pair[2], reg)} :
            /\ cacheOpen < MaxOpen
            /\ db' = r.db
            /\ cacheOpen' = cacheOpen + r.leaked
            /\ prev' = [cur EXCEPT !.would = "any"]
            /\ cur' = CallRecord(pair[1], pair[2], reg, r)
            /\ ret' = IF r.raised
                      THEN [NoRet EXCEPT !.op = "position", !.raised = TRUE]
                      ELSE [op |-> "position", raised |-> FALSE,
                            gps_pos |-> PositionOf(pair[1], pair[2], r.pose).gps_pos,
                            attitude |-> PositionOf(pair[1], pair[2], r.pose).attitude]
            /\ UNCHANGED <<predictVars, mapVars, fuseVars>>

CacheNext == image_transformation_from \/ image_position_from

CacheSpec == CacheInit /\ [][CacheNext]_vars

----------------------------------------------------------------------------
(* Images: a sequence of rows, each a sequence of numbers; the code's
   indices start at 0 *)

Rows(img) == Len(img)

Cols(img) == IF Len(img) = 0 THEN 0 ELSE Len(img[1])

Pix(img, i, j) == img[i + 1][j + 1]

\* c*np.ones((rows, cols))
Const(rows, cols, c) == [i \in 1..rows |-> [j \in 1..cols |-> c]]

\* elementwise sum of two images of one shape
ImgAdd(a, b) == [i \in DOMAIN a |-> [j \in DOMAIN a[i] |-> RAdd(a[i][j], b[i][j])]]

\* np.concatenate((R, [[t[0]], [t[1]]]), axis=1) for the rotation block of k
Affine(k, t) ==
    <<<<I(Cos4(k)), I(-Sin4(k)), t[1]>>,
      <<I(Sin4(k)), I(Cos4(k)), t[2]>>>>

\* the inverse of the 2x3 matrix M whose determinant is det
InvertWith(M, det) ==
    <<<<RDiv(M[2][2], det), RNeg(RDiv(M[1][2], det)),
        RDiv(RSub(RMul(M[1][2], M[2][3]), RMul(M[2][2], M[1][3])), det)>>,
      <<RNeg(RDiv(M[2][1], det)), RDiv(M[1][1], det),
        RDiv(RSub(RMul(M[2][1], M[1][3]), RMul(M[1][1], M[2][3])), det)>>>>

\* cv2.invertAffineTransform, which cv2.warpAffine maps the destination through
InvertAffine(M) ==
    InvertWith(M, RSub(RMul(M[1][1], M[2][2]), RMul(M[1][2], M[2][1])))

\* the source pixel at column x, row y, or the border value outside
Tap(src, x, y, borderValue) ==
    IF x >= 0 /\ x < Cols(src) /\ y >= 0 /\ y < Rows(src)
    THEN Pix(src, y, x) ELSE borderValue

\* the four neighbours of (x0 + fx, y0 + fy) weighted; a NaN neighbour makes
\* the sum NaN whatever its weight (0*NaN is NaN)
Interpolated(src, x0, y0, fx, fy, borderValue) ==
    RAdd(RAdd(RMul(Tap(src, x0, y0, borderValue),
                   RMul(RSub(I(1), fx), RSub(I(1), fy))),
              RMul(Tap(src, x0 + 1, y0, borderValue),
                   RMul(fx, RSub(I(1), fy)))),
         RAdd(RMul(Tap(src, x0, y0 + 1, borderValue),
                   RMul(RSub(I(1), fx), fy)),
              RMul(Tap(src, x0 + 1, y0 + 1, borderValue),
                   RMul(fx, fy))))

\* cv2.INTER_LINEAR at the source position (sx, sy)
Bilinear(src, sx, sy, borderValue) ==
    Interpolated(src, RFloor(sx), RFloor(sy),
                 RSub(sx, I(RFloor(sx))), RSub(sy, I(RFloor(sy))), borderValue)

\* dst(x, y) = src(W (x, y, 1)), bilinear, border value 0
WarpThrough(src, W, width, height) ==
    [i \in 1..height |-> [j \in 1..width |->
        Bilinear(src,
                 RAdd(RAdd(RMul(W[1][1], I(j - 1)), RMul(W[1][2], I(i - 1))), W[1][3]),
                 RAdd(RAdd(RMul(W[2][1], I(j - 1)), RMul(W[2][2], I(i - 1))), W[2][3]),
                 I(0))]]

\* cv2.warpAffine(src, M, (width, height), flags=cv2.INTER_LINEAR,
\* borderValue=0)
warpAffine(src, M, width, height) ==
    WarpThrough(src, InvertAffine(M), width, height)

\* lines 133-135 of predict_image: diff = mask - 1; diff[diff != -1] = 0;
\* diff[diff == -1] = nan
PredictDiff(mask) ==
    [i \in DOMAIN mask |-> [j \in DOMAIN mask[i] |->
        IF RSub(mask[i][j], I(1)) # I(-1) THEN I(0) ELSE NaN]]

\* line 136, with the two warped images kept beside the prediction
Prediction(predict_img, mask) ==
    [predict_img |-> predict_img, mask |-> mask,
     prediction |-> ImgAdd(PredictDiff(mask), predict_img)]

\* lines 130-132: the image and the all-ones mask through one matrix
PredictThrough(self, warp_matrix) ==
    Prediction(warpAffine(self.img, warp_matrix, Cols(self.img), Rows(self.img)),
               warpAffine(Const(Rows(self.img), Cols(self.img), I(1)), warp_matrix,
                          Cols(self.img), Rows(self.img)))

\* line 122: exp_trans
ExpTrans(self, gps_pos, attitude) ==
    VDiv(Apply(attitude, VSub(gps_pos, self.gps_pos), FALSE), self.precision)

\* lines 119-138, predict_image with shape None
predict_image(self, gps_pos, attitude) ==
    PredictThrough(self,
        Affine(rotation_proj(attitude, self.attitude),
               VScale(I(-1), ExpTrans(self, gps_pos, attitude))))

----------------------------------------------------------------------------
(* predict_image as a function of its inputs *)

\* the scans predicted: sensor images, one with an unknown pixel
PredictScans ==
    { RadarData(1, <<<<I(8), I(4)>>, <<I(4), I(8)>>>>, V3(0, 0, 0), 0, I(Precision)),
      RadarData(2, <<<<I(8), I(8), I(4)>>, <<I(4), NaN, I(8)>>>>, V3(2, 0, 0), 1,
                I(Precision)),
      RadarData(3, <<<<I(1), I(1)>>, <<I(1), I(1)>>, <<I(1), I(1)>>>>, V3(0, 2, 1), 0,
                I(Precision)) }

\* the poses predicted at: offsets of whole and half pixels
PredictPositions == {V3(x, y, 0) : x \in {-1, 0, 2, 3}, y \in {0, 1, 4}}

PredictAttitudes == {0, 1}

PredictInit ==
    /\ pin \in [scan : PredictScans, gps_pos : PredictPositions,
                attitude : PredictAttitudes]
    /\ pout = NoPout
    /\ CacheIdle /\ MapIdle /\ FuseIdle

\* a caller runs pin.scan.predict_image(pin.gps_pos, pin.attitude)
Predict ==
    /\ ~pout.done
    /\ pout' = [done |-> TRUE] @@ predict_image(pin.scan, pin.gps_pos, pin.attitude)
    /\ UNCHANGED pin
    /\ UNCHANGED <<cacheVars, mapVars, fuseVars>>

PredictNext == Predict

PredictSpec == PredictInit /\ [][PredictNext]_vars

----------------------------------------------------------------------------
(* merge_img and the Map (src/map.py) *)

\* the fusion with the weight of img2 mixed up
FusedMisweighted(v1, v2, p1, p2) ==
    <<I(RRound(RDiv(RAdd(RMul(v1, p2), RMul(v2, p2)), RAdd(p1, p2)))),
      RDiv(RMul(p1, p2), RAdd(p1, p2))>>

\* lines 22-23: the fusion of two known pixels, value and covariance
Fused(v1, v2, p1, p2) ==
    <<I(RRound(RDiv(RAdd(RMul(v1, p2), RMul(v2, p1)), RAdd(p1, p2)))),
      RDiv(RMul(p1, p2), RAdd(p1, p2))>>

\* lines 15-23: one pixel of merge_img, value and covariance
MergePixel(v1, v2, p1, p2) ==
    IF IsNaN(v1) THEN <<v2, p2>>
    ELSE IF IsNaN(v2) THEN <<v1, p1>>
    ELSE Fused(v1, v2, p1, p2)

\* loops that run over the whole of img1
InRangeAll(img1, P_start, P_end, i, j) == TRUE

\* lines 13-14: whether the loops of merge_img visit row i, column j
InRange(img1, P_start, P_end, i, j) ==
    /\ i >= (IF 0 > P_start[2] THEN 0 ELSE P_start[2])
    /\ i < (IF P_end[2] < Rows(img1) THEN P_end[2] ELSE Rows(img1))
    /\ j >= (IF 0 > P_start[1] THEN 0 ELSE P_start[1])
    /\ j < (IF P_end[1] < Cols(img1) THEN P_end[1] ELSE Cols(img1))

\* row i, column j of the result of merge_img, value and covariance
MergedAt(img1, img2, P1, P2, P_start, P_end, i, j) ==
    IF InRange(img1, P_start, P_end, i, j)
    THEN MergePixel(Pix(img1, i, j), Pix(img2, i, j), Pix(P1, i, j), Pix(P2, i, j))
    ELSE <<Pix(img1, i, j), Pix(P1, i, j)>>

\* lines 10-24
merge_img(img1, img2, P1, P2, P_start, P_end) ==
    [img |-> [i \in 1..Rows(img1) |-> [j \in 1..Cols(img1) |->
                MergedAt(img1, img2, P1, P2, P_start, P_end, i - 1, j - 1)[1]]],
     cov_img |-> [i \in 1..Rows(img1) |-> [j \in 1..Cols(img1) |->
                MergedAt(img1, img2, P1, P2, P_start, P_end, i - 1, j - 1)[2]]]]

\* self.chunk_size, the edge of a tile in pixels (1000 in the code; the
\* model takes small tiles and small scans)
ChunkSize == 2

\* self.img_cov as __init__ sets it
ImgCov0 == 10

\* the key str(i)+"/"+str(j) of a tile
TileKey(i, j) == <<i, j>>

NaNTile == Const(ChunkSize, ChunkSize, NaN)

\* lines 47-50: a tile of NaN with img in its upper left corner
Corner(img) ==
    [i \in 1..ChunkSize |-> [j \in 1..ChunkSize |->
        IF i <= Rows(img) /\ j <= Cols(img) THEN img[i][j] ELSE NaN]]

\* RadarData.width and RadarData.height (lines 26-32 of data.py)
width(data) == RMul(data.precision, I(Cols(data.img) - 1))

height(data) == RMul(data.precision, I(Rows(data.img) - 1))

\* self.attitude.inv()*otherdata.attitude
Relative(m, otherdata) == RotMul(RotInv(m.attitude), otherdata.attitude)

\* lines 79-80: P9 and P10
MinMax(P5, P6, P7, P8) ==
    [P9 |-> <<RMin(RMin(P5[1], P6[1]), RMin(P7[1], P8[1])),
              RMin(RMin(P5[2], P6[2]), RMin(P7[2], P8[2]))>>,
     P10 |-> <<RMax(RMax(P5[1], P6[1]), RMax(P7[1], P8[1])),
               RMax(RMax(P5[2], P6[2]), RMax(P7[2], P8[2]))>>]

\* lines 75-77: the corners P6, P7, P8 from P5 and the rotated edges
Corners(P5, e6, e7, e8) == MinMax(P5, VAdd(P5, e6), VAdd(P5, e7), VAdd(P5, e8))

\* lines 73-80: the bounding box, P9 and P10, of the footprint of otherdata
\* in the frame of the map m
Footprint(m, otherdata) ==
    Corners(Apply(m.attitude, VSub(otherdata.gps_pos, m.gps_pos), FALSE),
            Apply(Relative(m, otherdata), <<width(otherdata), I(0), I(0)>>, FALSE),
            Apply(Relative(m, otherdata),
                  <<width(otherdata), height(otherdata), I(0)>>, FALSE),
            Apply(Relative(m, otherdata), <<I(0), height(otherdata), I(0)>>, FALSE))

\* lines 82-83: np.flip(np.floor((P/self.precision)/self.chunk_size)),
\* the row and the column of a tile
ChunkOf(m, P) ==
    <<RFloor(RDiv(RDiv(P[2], m.precision), I(ChunkSize))),
      RFloor(RDiv(RDiv(P[1], m.precision), I(ChunkSize)))>>

\* lines 88-89: the keys of the two loops
ChunkRange(chunk_1, chunk_2) ==
    {TileKey(i, j) : i \in chunk_1[1]..chunk_2[1], j \in chunk_1[2]..chunk_2[2]}

\* lines 90-92: the group with a NaN tile under each key of range it lacks
WithTiles(group, range) ==
    [key \in DOMAIN group \cup range |->
        IF key \in DOMAIN group THEN group[key] ELSE NaNTile]

\* lines 85-94: the tiles of chunk_1..chunk_2 side by side
Assembled(group, chunk_1, chunk_2) ==
    [r \in 1..ChunkSize * (1 + chunk_2[1] - chunk_1[1]) |->
        [c \in 1..ChunkSize * (1 + chunk_2[2] - chunk_1[2]) |->
            group[TileKey(chunk_1[1] + ((r - 1) \div ChunkSize),
                          chunk_1[2] + ((c - 1) \div ChunkSize))]
                 [((r - 1) % ChunkSize) + 1][((c - 1) % ChunkSize) + 1]]]

\* line 95: the earth position of the first pixel of the buffer
Origin(m, chunk_1) ==
    VAdd(m.gps_pos,
         Apply(m.attitude,
               <<RMul(I(chunk_1[2] * ChunkSize), m.precision),
                 RMul(I(chunk_1[1] * ChunkSize), m.precision), I(0)>>, TRUE))

\* lines 85-97: what build_partial_map returns, the keys it read and the
\* two groups of the file afterwards
PartialMap(m, map2, cov2, fp, chunk_1, chunk_2) ==
    [img |-> Assembled(map2, chunk_1, chunk_2),
     cov_img |-> Assembled(cov2, chunk_1, chunk_2),
     gps_pos |-> Origin(m, chunk_1),
     P9 |-> fp.P9, P10 |-> fp.P10,
     read |-> ChunkRange(chunk_1, chunk_2),
     map_hdf5 |-> map2, cov_map_hdf5 |-> cov2]

\* lines 88-92: the missing tiles created
PartialOver(m, map_h, cov_h, fp, chunk_1, chunk_2) ==
    PartialMap(m, WithTiles(map_h, ChunkRange(chunk_1, chunk_2)),
               WithTiles(cov_h, ChunkRange(chunk_1, chunk_2)), fp, chunk_1, chunk_2)

\* lines 82-83: chunk_1 and chunk_2
PartialFor(m, map_h, cov_h, fp) ==
    PartialOver(m, map_h, cov_h, fp, ChunkOf(m, fp.P9), ChunkOf(m, fp.P10))

\* lines 67-97, build_partial_map
build_partial_map(m, map_h, cov_h, otherdata) ==
    PartialFor(m, map_h, cov_h, Footprint(m, otherdata))

\* the slice of line 108 with the column offset taken from the row
SliceMixed(img, a, b) ==
    [r \in 1..ChunkSize |-> [c \in 1..ChunkSize |->
        img[a * ChunkSize + r][a * ChunkSize + c]]]

\* lines 108-109: img[a*cs:(a+1)*cs, b*cs:(b+1)*cs]
Slice(img, a, b) ==
    [r \in 1..ChunkSize |-> [c \in 1..ChunkSize |->
        img[a * ChunkSize + r][b * ChunkSize + c]]]

\* line 105: np.flip(np.round(...)), the row and the column of the tile the
\* buffer starts at
UpdateChunk(m, pos) ==
    <<RRound(RDiv(RDiv(Apply(m.attitude, VSub(pos, m.gps_pos), FALSE)[2],
                       m.precision), I(ChunkSize))),
      RRound(RDiv(RDiv(Apply(m.attitude, VSub(pos, m.gps_pos), FALSE)[1],
                       m.precision), I(ChunkSize)))>>

\* lines 106-107: the keys in the order the two loops visit them
TileOrder(img, chunk) ==
    [n \in 1..RCeil(Q(Rows(img), ChunkSize)) * RCeil(Q(Cols(img), ChunkSize)) |->
        TileKey(chunk[1] + ((n - 1) \div RCeil(Q(Cols(img), ChunkSize))),
                chunk[2] + ((n - 1) % RCeil(Q(Cols(img), ChunkSize))))]

\* the place in order of the first key the group does not hold, where
\* map_hdf5[key] raises KeyError; past the end when it holds them all
FirstMissing(group, order) ==
    IF \A n \in DOMAIN order : order[n] \in DOMAIN group
    THEN Len(order) + 1
    ELSE CHOOSE n \in DOMAIN order :
            /\ order[n] \notin DOMAIN group
            /\ \A k \in 1..n - 1 : order[k] \in DOMAIN group

\* lines 108-110: the tiles of written overwritten; hdf5.close() is not
\* reached when KeyError was raised
Written(map_h, cov_h, img, cov_img, chunk, written, raised) ==
    [map_hdf5 |-> [k \in DOMAIN map_h |->
                      IF k \in written
                      THEN Slice(img, k[1] - chunk[1], k[2] - chunk[2])
                      ELSE map_h[k]],
     cov_map_hdf5 |-> [k \in DOMAIN cov_h |->
                      IF k \in written
                      THEN Slice(cov_img, k[1] - chunk[1], k[2] - chunk[2])
                      ELSE cov_h[k]],
     written |-> written,
     raised |-> raised,
     leaked |-> IF raised THEN 1 ELSE 0]

\* the loops run up to the first missing key
WriteUpTo(map_h, cov_h, img, cov_img, chunk, order, stop) ==
    Written(map_h, cov_h, img, cov_img, chunk,
            {order[n] : n \in 1..stop - 1}, stop <= Len(order))

WriteTiles(map_h, cov_h, img, cov_img, chunk, order) ==
    WriteUpTo(map_h, cov_h, img, cov_img, chunk, order, FirstMissing(map_h, order))

WriteFrom(map_h, cov_h, img, cov_img, chunk) ==
    WriteTiles(map_h, cov_h, img, cov_img, chunk, TileOrder(img, chunk))

\* lines 99-110, update_map
update_map(m, map_h, cov_h, img, cov_img, pos) ==
    WriteFrom(map_h, cov_h, img, cov_img, UpdateChunk(m, pos))

\* lines 122-123 of add_data: diff = mask - 1; diff[diff != 0] = nan
AddDiff(mask) ==
    [i \in DOMAIN mask |-> [j \in DOMAIN mask[i] |->
        IF RSub(mask[i][j], I(1)) # I(0) THEN NaN ELSE I(0)]]

\* lines 117-118: M2
AddMatrix(m, otherdata, new_origin) ==
    Affine(Relative(m, otherdata),
           VDiv(Apply(m.attitude, VSub(otherdata.gps_pos, new_origin), FALSE),
                m.precision))

\* self.attitude.apply(new_origin - self.gps_pos)[0:2]
OriginInMap(m, new_origin) == Apply(m.attitude, VSub(new_origin, m.gps_pos), FALSE)

\* lines 127-128: P_start and P_end, each x then y
PStart(m, b) ==
    <<RFloor(RDiv(RSub(b.P9[1], OriginInMap(m, b.gps_pos)[1]), m.precision)),
      RFloor(RDiv(RSub(b.P9[2], OriginInMap(m, b.gps_pos)[2]), m.precision))>>

PEnd(m, b) ==
    <<RCeil(RDiv(RSub(b.P10[1], OriginInMap(m, b.gps_pos)[1]), m.precision)),
      RCeil(RDiv(RSub(b.P10[2], OriginInMap(m, b.gps_pos)[2]), m.precision))>>

\* what add_data did: the file afterwards, the keys read and written
Added(b, u) ==
    [map_hdf5 |-> u.map_hdf5, cov_map_hdf5 |-> u.cov_map_hdf5,
     raised |-> u.raised, leaked |-> u.leaked,
     read |-> b.read, written |-> u.written, P9 |-> b.P9, P10 |-> b.P10]

\* line 131
AddWritten(m, b, merged) ==
    Added(b, update_map(m, b.map_hdf5, b.cov_map_hdf5, merged.img, merged.cov_img,
                        b.gps_pos))

\* lines 124-130
AddMasked(m, b, img2, cov_img2, diff) ==
    AddWritten(m, b, merge_img(b.img, ImgAdd(diff, img2), b.cov_img,
                               ImgAdd(diff, cov_img2), PStart(m, b), PEnd(m, b)))

\* lines 119-123: the image, the covariance and the mask through M2
AddWarped(m, cov, otherdata, b, M2) ==
    AddMasked(m, b,
        warpAffine(otherdata.img, M2, Cols(b.img), Rows(b.img)),
        warpAffine(Const(Rows(otherdata.img), Cols(otherdata.img), cov), M2,
                   Cols(b.img), Rows(b.img)),
        AddDiff(warpAffine(Const(Rows(otherdata.img), Cols(otherdata.img), I(1)), M2,
                           Cols(b.img), Rows(b.img))))

AddOnto(m, cov, otherdata, b) ==
    AddWarped(m, cov, otherdata, b, AddMatrix(m, otherdata, b.gps_pos))

\* lines 112-131, add_data
add_data(m, cov, map_h, cov_h, otherdata) ==
    AddOnto(m, cov, otherdata, build_partial_map(m, map_h, cov_h, otherdata))

\* lines 184-186: M2 of extract_from_map
ExtractMatrix(m, gps_pos, attitude, scale, new_origin) ==
    [i \in 1..2 |-> [j \in 1..3 |->
        RMul(scale,
             Affine(RotMul(RotInv(attitude), m.attitude),
                    VDiv(Apply(m.attitude, VSub(new_origin, gps_pos), FALSE),
                         m.precision))[i][j])]]

\* lines 187-189: the two buffers through M2, beside the file afterwards
Extracted(b, M2, shape) ==
    [map_hdf5 |-> b.map_hdf5, cov_map_hdf5 |-> b.cov_map_hdf5, read |-> b.read,
     img2 |-> warpAffine(b.img, M2, shape[2], shape[1]),
     cov_img2 |-> warpAffine(b.cov_img, M2, shape[2], shape[1])]

ExtractOver(m, gps_pos, attitude, shape, scale, b) ==
    Extracted(b, ExtractMatrix(m, gps_pos, attitude, scale, b.gps_pos), shape)

\* lines 179-189, extract_from_map: shape is (rows, columns)
extract_from_map(m, map_h, cov_h, gps_pos, attitude, shape, scale) ==
    ExtractOver(m, gps_pos, attitude, shape, scale,
        build_partial_map(m, map_h, cov_h,
            RadarData(0, Const(RCeil(RDiv(I(shape[1]), scale)),
                               RCeil(RDiv(I(shape[2]), scale)), I(1)),
                      gps_pos, attitude, m.precision)))

----------------------------------------------------------------------------
(* The Map through its operations *)

\* operations on the map in one run
MaxOps == 2

\* the scans a map is created from; their images fit in one tile
InitScans ==
    { RadarData(1, <<<<I(8), NaN>>, <<I(4), I(8)>>>>, V3(0, 0, 0), 0, I(Precision)),
      RadarData(1, <<<<I(8), I(4)>>, <<I(4), I(0)>>>>, V3(2, 4, 1), 1, I(Precision)) }

\* the scans added to the map: aligned with the tiles, off by half a
\* pixel and with an unknown pixel, rotated and reaching tiles of negative
\* index, and of a coarser and of a finer resolution than the map
MapScans ==
    { RadarData(2, <<<<I(4), I(8)>>, <<I(8), I(4)>>>>, V3(0, 0, 0), 0, I(Precision)),
      RadarData(3, <<<<I(8), I(8), I(4)>>, <<I(4), NaN, I(8)>>, <<I(4), I(0), I(8)>>>>,
                V3(3, 1, 0), 0, I(Precision)),
      RadarData(4, <<<<I(0), I(8), I(0)>>, <<I(8), I(8), I(4)>>, <<I(4), I(0), I(8)>>>>,
                V3(-2, -2, 0), 1, I(Precision)),
      RadarData(5, <<<<I(8), I(0)>>, <<I(0), I(8)>>>>, V3(2, 2, 0), 0,
                I(2 * Precision)),
      RadarData(6, <<<<I(4), I(8), I(4)>>, <<I(8), I(0), I(8)>>, <<I(4), I(8), I(4)>>>>,
                V3(0, 0, 0), 0, Q(Precision, 2)) }

Covariances == {I(2), I(ImgCov0)}

\* offsets of the origin update_map is called with from the origin
\* build_partial_map returned: none, half a pixel, two pixels
UpdateShifts == {V3(0, 0, 0), V3(1, 0, 0), V3(4, 0, 0)}

ExtractQueries ==
    { [gps_pos |-> V3(0, 0, 0), attitude |-> 0, shape |-> <<2, 2>>, scale |-> I(1)],
      [gps_pos |-> V3(4, 4, 0), attitude |-> 1, shape |-> <<2, 3>>, scale |-> I(2)] }

\* lines 28-61: Map(radardata) for a scan
MapInit ==
    /\ \E radardata \in InitScans :
          /\ map = [precision |-> radardata.precision,
                    gps_pos |-> radardata.gps_pos,
                    attitude |-> radardata.attitude]
          /\ map_hdf5 = [key \in {TileKey(0, 0)} |-> Corner(radardata.img)]
          /\ cov_map_hdf5 =
                [key \in {TileKey(0, 0)} |->
                    Corner(Const(Rows(radardata.img), Cols(radardata.img),
                                 I(ImgCov0)))]
    /\ img_cov = I(ImgCov0)
    /\ fileOpen = 0
    /\ buf = NoBuf
    /\ last = [NoLast EXCEPT !.op = "init"]
    /\ nops = 0
    /\ CacheIdle /\ PredictIdle /\ FuseIdle

\* the tiles as an operation finds them
Before == [NoLast EXCEPT !.pre_map = map_hdf5, !.pre_cov = cov_map_hdf5]

\* lines 63-65
SetImgCovariance ==
    \E cov \in Covariances :
        /\ nops < MaxOps
        /\ img_cov' = cov
        /\ last' = [Before EXCEPT !.op = "set_img_covariance"]
        /\ buf' = [buf EXCEPT !.fresh = FALSE]
        /\ nops' = nops + 1
        /\ UNCHANGED <<map, map_hdf5, cov_map_hdf5, fileOpen>>
        /\ UNCHANGED <<cacheVars, predictVars, fuseVars>>

\* a caller runs self.add_data(otherdata)
AddData ==
    \E otherdata \in MapScans :
        \E r \in {add_data(map, img_cov, map_hdf5, cov_map_hdf5, otherdata)} :
            /\ nops < MaxOps
            /\ map_hdf5' = r.map_hdf5
            /\ cov_map_hdf5' = r.cov_map_hdf5
            /\ fileOpen' = fileOpen + r.leaked
            /\ last' = [Before EXCEPT !.op = "add_data", !.raised = r.raised,
                                      !.scan = otherdata, !.read = r.read,
                                      !.written = r.written,
                                      !.P9 = r.P9, !.P10 = r.P10]
            /\ buf' = [buf EXCEPT !.fresh = FALSE]
            /\ nops' = nops + 1
            /\ UNCHANGED <<map, img_cov>>
            /\ UNCHANGED <<cacheVars, predictVars, fuseVars>>

\* a caller runs self.build_partial_map(otherdata) and keeps what it returns
BuildPartialMap ==
    \E otherdata \in MapScans :
        \E b \in {build_partial_map(map, map_hdf5, cov_map_hdf5, otherdata)} :
            /\ nops < MaxOps
            /\ map_hdf5' = b.map_hdf5
            /\ cov_map_hdf5' = b.cov_map_hdf5
            /\ buf' = [held |-> TRUE, fresh |-> TRUE, img |-> b.img,
                       cov_img |-> b.cov_img, gps_pos |-> b.gps_pos,
                       read |-> b.read]
            /\ last' = [Before EXCEPT !.op = "build_partial_map",
                                      !.scan = otherdata, !.read = b.read,
                                      !.P9 = b.P9, !.P10 = b.P10]
            /\ nops' = nops + 1
            /\ UNCHANGED <<map, img_cov, fileOpen>>
            /\ UNCHANGED <<cacheVars, predictVars, fuseVars>>

\* a caller runs self.update_map(img, cov_img, pos) with the buffers it
\* holds, at the origin it was given or at another one
UpdateMap ==
    \E shift \in UpdateShifts :
        /\ nops < MaxOps
        /\ buf.held
        /\ \E u \in {update_map(map, map_hdf5, cov_map_hdf5, buf.img, buf.cov_img,
                                VAdd(buf.gps_pos, shift))} :
            /\ map_hdf5' = u.map_hdf5
            /\ cov_map_hdf5' = u.cov_map_hdf5
            /\ fileOpen' = fileOpen + u.leaked
            /\ last' = [Before EXCEPT !.op = "update_map", !.raised = u.raised,
                                      !.read = buf.read, !.written = u.written,
                                      !.unmodified =
                                          (buf.fresh /\ shift = V3(0, 0, 0))]
        /\ buf' = [buf EXCEPT !.fresh = FALSE]
        /\ nops' = nops + 1
        /\ UNCHANGED <<map, img_cov>>
        /\ UNCHANGED <<cacheVars, predictVars, fuseVars>>

\* a caller runs self.extract_from_map(gps_pos, attitude, shape, scale)
ExtractFromMap ==
    \E q \in ExtractQueries :
        \E e \in {extract_from_map(map, map_hdf5, cov_map_hdf5, q.gps_pos,
                                   q.attitude, q.shape, q.scale)} :
            /\ nops < MaxOps
            /\ map_hdf5' = e.map_hdf5
            /\ cov_map_hdf5' = e.cov_map_hdf5
            /\ last' = [Before EXCEPT !.op = "extract_from_map", !.read = e.read]
            /\ buf' = [buf EXCEPT !.fresh = FALSE]
            /\ nops' = nops + 1
            /\ UNCHANGED <<map, img_cov, fileOpen>>
            /\ UNCHANGED <<cacheVars, predictVars, fuseVars>>

MapNext ==
    \/ SetImgCovariance
    \/ AddData
    \/ BuildPartialMap
    \/ UpdateMap
    \/ ExtractFromMap

MapSpec == MapInit /\ [][MapNext]_vars

----------------------------------------------------------------------------
(* merge_img on one pixel as a function of its inputs *)

\* pixel values, one of them unknown
FuseValues == {NaN, I(0), I(3), I(100), I(255)}

\* covariances of pixels
FuseCovariances == {I(1), I(3), I(ImgCov0)}

\* the pixel of merge_img for images of one pixel
FusePixel(v1, p1, v2, p2) ==
    <<merge_img(<<<<v1>>>>, <<<<v2>>>>, <<<<p1>>>>, <<<<p2>>>>, <<0, 0>>, <<1, 1>>)
          .img[1][1],
      merge_img(<<<<v1>>>>, <<<<v2>>>>, <<<<p1>>>>, <<<<p2>>>>, <<0, 0>>, <<1, 1>>)
          .cov_img[1][1]>>

FuseInit ==
    /\ fin \in [v1 : FuseValues, v2 : FuseValues,
                p1 : FuseCovariances, p2 : FuseCovariances]
    /\ fout = NoFout
    /\ CacheIdle /\ PredictIdle /\ MapIdle

\* merge_img runs on (v1, p1) and (v2, p2), on the two in the other order,
\* and on the two with the values alone exchanged
Fuse ==
    /\ ~fout.done
    /\ fout' = [done |-> TRUE,
                ab |-> FusePixel(fin.v1, fin.p1, fin.v2, fin.p2),
                ba |-> FusePixel(fin.v2, fin.p2, fin.v1, fin.p1),
                values_swapped |-> FusePixel(fin.v2, fin.p1, fin.v1, fin.p2)]
    /\ UNCHANGED fin
    /\ UNCHANGED <<cacheVars, predictVars, mapVars>>

FuseNext == Fuse

FuseSpec == FuseInit /\ [][FuseNext]_vars

----------------------------------------------------------------------------
(* Claims about pose estimation and the pose cache, under CacheSpec *)

\* the latest two calls were for the same ordered pair of scans, ids defined
SamePairTwice ==
    /\ prev.called /\ cur.called
    /\ cur.self = prev.self /\ cur.other = prev.other
    /\ BothIds(cur.self, cur.other)

Valid(call) == ~call.raised /\ ~AnyNaN(call.pose.translation)

\* the dict of the active namespace
ActiveDict ==
    IF db.use # <<>> /\ db.use[1] \in DOMAIN db.spaces
    THEN db.spaces[db.use[1]] ELSE EmptyDict

\* C1 as stated: two successive calls of estimate(A,B) with both ids defined
\* invoke the registration primitive at most once in total, and the second
\* returns the pose of the first
C1_AtMostOnceAlways ==
    SamePairTwice =>
        /\ ~(prev.invoked /\ cur.invoked)
        /\ cur.pose = prev.pose

\* C1 amended: when the first of two successive calls of estimate(A,B) with
\* both ids defined returned a valid pose, the second call does not invoke
\* the registration primitive (so it is invoked at most once in total) and
\* returns that same pose, whatever the primitive would have done
C1_CachedAfterSuccess ==
    (SamePairTwice /\ Valid(prev)) =>
        /\ ~cur.invoked
        /\ ~cur.raised
        /\ cur.pose = prev.pose

\* the first call registered, the second would have failed and returned the
\* cached pose
C1_Witness ==
    /\ SamePairTwice /\ Valid(prev) /\ prev.invoked
    /\ cur.would = "throw" /\ cur.pose = prev.pose /\ ~cur.invoked

\* C2: the cache never holds an invalid pose; a call whose registration
\* fails stores nothing for its pair; the next call for that pair registers
\* again and, when it succeeds, its pose is stored
C2_NoFailureCached ==
    /\ \A ns \in DOMAIN db.spaces : \A key \in DOMAIN db.spaces[ns] :
          /\ ~AnyNaN(db.spaces[ns][key].translation)
          /\ db.spaces[ns][key].rotation # NaNRot
    /\ (cur.called /\ cur.invoked /\ ~Valid(cur)) =>
          PairKey(cur.self, cur.other) \notin DOMAIN ActiveDict
    /\ (SamePairTwice /\ prev.invoked /\ ~Valid(prev)) =>
          /\ cur.invoked
          /\ Valid(cur) =>
                /\ PairKey(cur.self, cur.other) \in DOMAIN ActiveDict
                /\ ActiveDict[PairKey(cur.self, cur.other)] = cur.pose

\* a failed registration followed by a successful one for the same pair,
\* whose pose is now in the cache
C2_Witness ==
    /\ SamePairTwice /\ prev.invoked /\ ~prev.raised /\ ~Valid(prev)
    /\ cur.invoked /\ Valid(cur)
    /\ PairKey(cur.self, cur.other) \in DOMAIN ActiveDict

\* C3: a failure of the registration primitive is not raised to the caller:
\* the pose returned is the invalid pose, and image_position_from returns
\* the position of self with the altitude of otherdata, and the attitude
\* that the heading projection of the two attitudes gives
C3_FailureNotPropagated ==
    (cur.called /\ cur.invoked /\ cur.would = "throw") =>
        /\ ~cur.raised
        /\ cur.pose = InvalidPose
        /\ ret.op = "position" =>
              /\ ~ret.raised
              /\ ret.gps_pos = <<cur.self.gps_pos[1], cur.self.gps_pos[2],
                                 cur.other.gps_pos[3]>>
              /\ ret.attitude =
                    RotMul(RotInv(rotation_proj(cur.other.attitude,
                                                cur.self.attitude)),
                           cur.other.attitude)

\* image_position_from returned a position although registration threw
C3_Witness ==
    /\ cur.called /\ cur.invoked /\ cur.would = "throw"
    /\ ret.op = "position" /\ ~ret.raised
    /\ ~AnyNaN(ret.gps_pos)
    /\ cur.self.gps_pos[3] # cur.other.gps_pos[3]

\* C4: when an operation has returned or raised, no handle that it opened
\* is still open, neither of the pose cache nor of the tile store
C4_HandlesClosed == cacheOpen = 0 /\ fileOpen = 0

----------------------------------------------------------------------------
(* Claims about predict_image, under PredictSpec *)

\* C10: every output pixel whose warped all-ones mask differs from exactly
\* 1 is unknown, and every pixel whose mask is exactly 1 keeps its
\* resampled value
C10_MaskRule ==
    pout.done =>
        \A i \in DOMAIN pout.mask : \A j \in DOMAIN pout.mask[i] :
            IF pout.mask[i][j] # I(1)
            THEN IsNaN(pout.prediction[i][j])
            ELSE pout.prediction[i][j] = pout.predict_img[i][j]

----------------------------------------------------------------------------
(* Claims about the Map, under MapSpec *)

\* the pixels of a tile
TilePixels == (1..ChunkSize) \X (1..ChunkSize)

\* the value, or the covariance, a group holds at pixel px of the tile key;
\* a tile the group lacks holds nothing but NaN
At(group, key, px) ==
    IF key \in DOMAIN group THEN group[key][px[1]][px[2]] ELSE NaN

\* C5: in every persisted tile the variance of a pixel is NaN exactly when
\* its value is NaN
C5_VarianceNaNIffValueNaN ==
    \A key \in DOMAIN map_hdf5 : \A px \in TilePixels :
        IsNaN(At(map_hdf5, key, px)) <=> IsNaN(At(cov_map_hdf5, key, px))

\* C6: update_map called with the buffers and the origin build_partial_map
\* has just returned, unmodified, raises nothing, writes exactly the tiles
\* build_partial_map read, and leaves every tile's values and covariances
\* as they were
C6_AssembleWriteBack ==
    (last.op = "update_map" /\ last.unmodified) =>
        /\ ~last.raised
        /\ last.written = last.read
        /\ map_hdf5 = last.pre_map
        /\ cov_map_hdf5 = last.pre_cov

\* buffers of several tiles, not all alike, were written back unmodified
C6_Witness ==
    /\ last.op = "update_map" /\ last.unmodified
    /\ Cardinality(last.written) > 1
    /\ \E k1 \in last.written, k2 \in last.written : map_hdf5[k1] # map_hdf5[k2]

\* C7: add_data with a scan whose precision differs from the map's raises
\* and leaves every tile as it was
C7_MismatchRejected ==
    (last.op = "add_data" /\ last.scan.precision # map.precision) =>
        /\ last.raised
        /\ map_hdf5 = last.pre_map
        /\ cov_map_hdf5 = last.pre_cov

\* the column and the row of pixel px of tile key, counted over the map
MapColumn(key, px) == key[2] * ChunkSize + px[2] - 1

MapRow(key, px) == key[1] * ChunkSize + px[1] - 1

\* whether the pixel lies in the bounding box P9..P10 of the footprint,
\* taken outwards to whole pixels
InBox(m, P9, P10, key, px) ==
    /\ RFloor(RDiv(P9[1], m.precision)) <= MapColumn(key, px)
    /\ MapColumn(key, px) <= RCeil(RDiv(P10[1], m.precision))
    /\ RFloor(RDiv(P9[2], m.precision)) <= MapRow(key, px)
    /\ MapRow(key, px) <= RCeil(RDiv(P10[2], m.precision))

\* whether add_data changed the value or the covariance of the pixel
Changed(key, px) ==
    \/ At(map_hdf5, key, px) # At(last.pre_map, key, px)
    \/ At(cov_map_hdf5, key, px) # At(last.pre_cov, key, px)

\* C9: a pixel whose value or covariance add_data changed lies in a tile of
\* the assembled chunk range and inside the bounding box of the footprint
C9_FrameEffect ==
    last.op = "add_data" =>
        \A key \in DOMAIN map_hdf5 : \A px \in TilePixels :
            Changed(key, px) =>
                /\ key \in last.read
                /\ InBox(map, last.P9, last.P10, key, px)

\* add_data changed a pixel and left alone a pixel of a tile it assembled
\* that held a value; a tile it did not assemble holds values too
C9_Witness ==
    /\ last.op = "add_data" /\ ~last.raised
    /\ \E key \in last.read : \E px \in TilePixels : Changed(key, px)
    /\ \E key \in last.read : \E px \in TilePixels :
          /\ ~InBox(map, last.P9, last.P10, key, px)
          /\ ~IsNaN(At(map_hdf5, key, px))
    /\ \E key \in DOMAIN map_hdf5 \ last.read : \E px \in TilePixels :
          ~IsNaN(At(map_hdf5, key, px))

----------------------------------------------------------------------------
(* Claims about merge_img, under FuseSpec *)

\* both values are known
Defined == ~IsNaN(fin.v1) /\ ~IsNaN(fin.v2)

\* C8 as stated: fusing (v1,p1) with (v2,p2) gives what fusing (v2,p1) with
\* (v1,p2) gives, the value up to one unit of rounding
C8_ValuesSwapped ==
    (fout.done /\ Defined) =>
        /\ Abs(fout.ab[1][1] - fout.values_swapped[1][1]) <= 1
        /\ fout.ab[2] = fout.values_swapped[2]

\* C8 amended: fusing (v1,p1) with (v2,p2) gives exactly what fusing
\* (v2,p2) with (v1,p1) gives, value and covariance
C8_Commutative == (fout.done /\ Defined) => fout.ab = fout.ba

\* two different values of different covariances were fused; exchanging the
\* values alone gives another result
C8_Witness ==
    /\ fout.done /\ Defined
    /\ fin.v1 # fin.v2 /\ fin.p1 # fin.p2
    /\ fout.ab = fout.ba
    /\ fout.ab # fout.values_swapped

============================================================================
